---- MODULE Spec2Model ----
(***************************************************************************)
(* Model of nornir_spectrum/plugins/inventory/spectrum.py: the translation *)
(* of Spectrum device records into Nornir hosts and groups that            *)
(* _process_data performs, one loop iteration per step.                    *)
(*                                                                         *)
(* Python values are records [t, s, n]: None, a str (the sequence of its   *)
(* characters, so that split and re.search are computed and not assumed)   *)
(* or an int.  A dict is a function whose DOMAIN is the set of its keys.   *)
(***************************************************************************)
EXTENDS Integers, Sequences, FiniteSets, TLC

\* ------------------------------------------------------------------------
\* Bounds of the model
\* ------------------------------------------------------------------------
MaxDevices == 2
MaxGcLen == 3

\* ------------------------------------------------------------------------
\* Python values
\* ------------------------------------------------------------------------
PyNone == [t |-> "none", s |-> <<>>, n |-> 0]

PyStr(chars) == [t |-> "str", s |-> chars, n |-> 0]

PyInt(k) == [t |-> "int", s |-> <<>>, n |-> k]

\* bool(v): None, "" and 0 are falsy
Truthy(v) ==
    CASE v.t = "none" -> FALSE
      [] v.t = "str" -> Len(v.s) > 0
      [] v.t = "int" -> v.n # 0

EmptyDict == <<>>

\* dict.get(key, default)
Get(d, key, default) == IF key \in DOMAIN d THEN d[key] ELSE default

\* the dict left by dict.pop(key) / dict.pop(key, default)
Pop(d, key) == [k \in (DOMAIN d) \ {key} |-> d[k]]

\* dict.update(other): the entries of other win
Update(d, other) == other @@ d

\* ------------------------------------------------------------------------
\* String literals of the source
\* ------------------------------------------------------------------------
S_32 == <<"3", "2">>
S_7 == <<"7">>
S_3 == <<"3">>
S_Rtr_Cisco == <<"R", "t", "r", "_", "C", "i", "s", "c", "o">>
S_SwCiscoIOS == <<"S", "w", "C", "i", "s", "c", "o", "I", "O", "S">>
S_CiscoNXOS == <<"C", "i", "s", "c", "o", "N", "X", "O", "S">>
S_SwCat45xx == <<"S", "w", "C", "a", "t", "4", "5", "x", "x">>
S_HubCat29xx == <<"H", "u", "b", "C", "a", "t", "2", "9", "x", "x">>
S_CiscoASA == <<"C", "i", "s", "c", "o", "A", "S", "A">>
S_ios == <<"i", "o", "s">>
S_nxos_ssh == <<"n", "x", "o", "s", "_", "s", "s", "h">>
S_cisco_asa == <<"c", "i", "s", "c", "o", "_", "a", "s", "a">>
S_junos == <<"j", "u", "n", "o", "s">>
S_generic == <<"g", "e", "n", "e", "r", "i", "c">>
S_generic_telnet == <<"g", "e", "n", "e", "r", "i", "c", "_", "t", "e", "l", "n", "e", "t">>
S_CiscoRT == <<"C", "i", "s", "c", "o", "R", "T">>
S_JuniperRT == <<"J", "u", "n", "i", "p", "e", "r", "R", "T">>
S_Cisco == <<"C", "i", "s", "c", "o">>
S_Juniper == <<"J", "u", "n", "i", "p", "e", "r">>

\* Attribute ids requested by load() and consumed by _process_data
K_NAME == "0x1006e"
K_MT == "0x10000"
K_CLASS == "0x11ee8"
K_DT == "0x23000e"
K_ADDR == "0x12d7f"
K_COND == "0x1000a"
K_GC == "0x12adb"
K_TOPO == "0x129e7"
K_MODE == "0x12beb"

\* ------------------------------------------------------------------------
\* Module-level tables
\* ------------------------------------------------------------------------
SPECTRUM_PORT_MAP ==
    (S_32 :> PyInt(22)) @@ (S_7 :> PyInt(22)) @@ (S_3 :> PyInt(23))

NETMIKO_MODEL_TYPE_MAP ==
    (S_Rtr_Cisco :> PyStr(S_ios)) @@ (S_SwCiscoIOS :> PyStr(S_ios)) @@
    (S_CiscoNXOS :> PyStr(S_nxos_ssh)) @@ (S_SwCat45xx :> PyStr(S_ios)) @@
    (S_HubCat29xx :> PyStr(S_ios)) @@ (S_CiscoASA :> PyStr(S_cisco_asa))

NETMIKO_DEVICE_TYPE_MAP == (S_CiscoRT :> PyStr(S_ios)) @@ (S_JuniperRT :> PyStr(S_junos))

\* TABLE.get(key, default) for a table keyed by str: a None key is a miss
TableGet(table, key, default) ==
    IF key.t = "str" /\ key.s \in DOMAIN table THEN table[key.s] ELSE default

\* ------------------------------------------------------------------------
\* re.search(pattern, text) for a literal pattern: substring test
\* ------------------------------------------------------------------------
re_search(pattern, text) ==
    \E k \in 1..(Len(text) - Len(pattern) + 1) :
        SubSeq(text, k, k + Len(pattern) - 1) = pattern

\* ------------------------------------------------------------------------
\* platform_calc
\* ------------------------------------------------------------------------
platform_calc_swapped(model_type_name, device_type) ==
    LET platform == TableGet(NETMIKO_DEVICE_TYPE_MAP, device_type,
                        TableGet(NETMIKO_MODEL_TYPE_MAP, model_type_name, PyNone))
    IN  IF ~Truthy(platform) /\ Truthy(device_type)
        THEN IF re_search(S_Cisco, device_type.s) THEN PyStr(S_ios)
             ELSE IF re_search(S_Juniper, device_type.s) THEN PyStr(S_junos)
             ELSE platform
        ELSE platform

platform_calc(model_type_name, device_type) ==
    LET platform == TableGet(NETMIKO_MODEL_TYPE_MAP, model_type_name,
                        TableGet(NETMIKO_DEVICE_TYPE_MAP, device_type, PyNone))
    IN  IF ~Truthy(platform) /\ Truthy(device_type)
        THEN IF re_search(S_Cisco, device_type.s) THEN PyStr(S_ios)
             ELSE IF re_search(S_Juniper, device_type.s) THEN PyStr(S_junos)
             ELSE platform
        ELSE platform

\* ------------------------------------------------------------------------
\* str.split(":"), set(...) and list(set(...))
\* ------------------------------------------------------------------------
RECURSIVE SplitFrom(_, _, _)
SplitFrom(text, k, cur) ==
    IF k > Len(text) THEN <<cur>>
    ELSE IF text[k] = ":" THEN <<cur>> \o SplitFrom(text, k + 1, <<>>)
    ELSE SplitFrom(text, k + 1, Append(cur, text[k]))

str_split(text) == SplitFrom(text, 1, <<>>)

\* set(gc_str.split(":")) if gc_str else the empty set
gc_set_nosplit(gc_str) == IF Truthy(gc_str) THEN {gc_str.s} ELSE {}

gc_set_drop_empty(gc_str) ==
    IF Truthy(gc_str)
    THEN {str_split(gc_str.s)[k] : k \in DOMAIN str_split(gc_str.s)} \ {<<>>}
    ELSE {}

gc_set(gc_str) ==
    IF Truthy(gc_str)
    THEN {str_split(gc_str.s)[k] : k \in DOMAIN str_split(gc_str.s)}
    ELSE {}

\* list(set(...)): every iteration order of the set is possible
Orderings(S) ==
    {q \in [1..Cardinality(S) -> S] : \A a, b \in DOMAIN q : a # b => q[a] # q[b]}

\* ------------------------------------------------------------------------
\* int(x) for the values a record can hold
\* ------------------------------------------------------------------------
DigitVal ==
    ("0" :> 0) @@ ("1" :> 1) @@ ("2" :> 2) @@ ("3" :> 3) @@ ("4" :> 4) @@
    ("5" :> 5) @@ ("6" :> 6) @@ ("7" :> 7) @@ ("8" :> 8) @@ ("9" :> 9)

RECURSIVE ParseDigits(_, _)
ParseDigits(chars, k) ==
    IF k = 0 THEN 0 ELSE 10 * ParseDigits(chars, k - 1) + DigitVal[chars[k]]

\* int(v): [err, val]; int(None) is a TypeError, int of a str that is not a
\* run of decimal digits a ValueError
py_int(v) ==
    CASE v.t = "int" -> [err |-> "", val |-> v]
      [] v.t = "none" -> [err |-> "TypeError", val |-> PyNone]
      [] v.t = "str" ->
            IF Len(v.s) > 0 /\ \A k \in DOMAIN v.s : v.s[k] \in DOMAIN DigitVal
            THEN [err |-> "", val |-> PyInt(ParseDigits(v.s, Len(v.s)))]
            ELSE [err |-> "ValueError", val |-> PyNone]

\* ------------------------------------------------------------------------
\* Steps of the loop body of _process_data
\* ------------------------------------------------------------------------
\* Group(gc): a new Group object
Group(gc) == [name |-> gc]

\* groups.setdefault(gc, obj): obj is stored only when gc is a new key
setdefault_overwrite(gs, gc, obj) == (gc :> obj) @@ gs

setdefault(gs, gc, obj) == IF gc \in DOMAIN gs THEN gs ELSE (gc :> obj) @@ gs

\* for gc in gc_list: groups.setdefault(gc, Group(gc)).  Group(gc) is
\* evaluated on every pass; a Group object is identified by its index in objs
RECURSIVE CreateGroups(_, _, _, _)
CreateGroups(gs, objs, gc_list, k) ==
    IF k > Len(gc_list) THEN [groups |-> gs, group_objs |-> objs]
    ELSE CreateGroups(setdefault(gs, gc_list[k], Len(objs) + 1),
                      Append(objs, Group(gc_list[k])), gc_list, k + 1)

\* SPECTRUM_PORT_MAP.get(device.pop("0x12beb"))
lookup_port(mode) == TableGet(SPECTRUM_PORT_MAP, mode, PyNone)

\* if port == 23 and platform == "ios"
telnet_ios(port, platform) == port = PyInt(23) /\ platform = PyStr(S_ios)

\* the entries connection_options.update(...) writes
TELNET_OPTIONS ==
    ("netmiko" :> "extras={'device_type': 'cisco_ios_telnet'}") @@
    ("napalm" :> "extras={'optional_args': {'transport': 'telnet'}}")

\* Fall back to generic
fallback_platform(port, platform) ==
    IF port = PyInt(22) /\ ~Truthy(platform) THEN PyStr(S_generic)
    ELSE IF port = PyInt(23) /\ ~Truthy(platform) THEN PyStr(S_generic_telnet)
    ELSE platform

\* NETCONF for all Juniper devices
netconf_port_ssh_only(port, platform) ==
    IF platform = PyStr(S_junos) /\ port = PyInt(22) THEN PyInt(830) ELSE port

netconf_port(port, platform) ==
    IF platform = PyStr(S_junos) THEN PyInt(830) ELSE port

\* data = dict(); data[...] = device.pop(...); data.update(device).
\* [err, device, data]: device is the record as the pops done so far left it
build_data_keep_topology(d) ==
    LET model_type == Get(d, K_MT, PyStr(<<>>))
        d1 == Pop(d, K_MT)
        condition == py_int(Get(d1, K_COND, PyInt(0)))
        d2 == Pop(d1, K_COND)
        model_class == py_int(Get(d2, K_CLASS, PyInt(0)))
        d3 == Pop(d2, K_CLASS)
        device_type == Get(d3, K_DT, PyStr(<<>>))
        d4 == Pop(d3, K_DT)
        topology_string == Get(d4, K_TOPO, PyStr(<<>>))
        d5 == d4
        named == ("model_type" :> model_type) @@ ("condition" :> condition.val) @@
                 ("model_class" :> model_class.val) @@
                 ("device_type" :> device_type) @@
                 ("topology_string" :> topology_string)
    IN  IF condition.err # "" THEN [err |-> condition.err, device |-> d2, data |-> EmptyDict]
        ELSE IF model_class.err # "" THEN [err |-> model_class.err, device |-> d3, data |-> EmptyDict]
        ELSE [err |-> "", device |-> d5, data |-> Update(named, d5)]

build_data_named_last(d) ==
    LET model_type == Get(d, K_MT, PyStr(<<>>))
        d1 == Pop(d, K_MT)
        condition == py_int(Get(d1, K_COND, PyInt(0)))
        d2 == Pop(d1, K_COND)
        model_class == py_int(Get(d2, K_CLASS, PyInt(0)))
        d3 == Pop(d2, K_CLASS)
        device_type == Get(d3, K_DT, PyStr(<<>>))
        d4 == Pop(d3, K_DT)
        topology_string == Get(d4, K_TOPO, PyStr(<<>>))
        d5 == Pop(d4, K_TOPO)
        named == ("model_type" :> model_type) @@ ("condition" :> condition.val) @@
                 ("model_class" :> model_class.val) @@
                 ("device_type" :> device_type) @@
                 ("topology_string" :> topology_string)
    IN  IF condition.err # "" THEN [err |-> condition.err, device |-> d2, data |-> EmptyDict]
        ELSE IF model_class.err # "" THEN [err |-> model_class.err, device |-> d3, data |-> EmptyDict]
        ELSE [err |-> "", device |-> d5, data |-> Update(d5, named)]

build_data(d) ==
    LET model_type == Get(d, K_MT, PyStr(<<>>))
        d1 == Pop(d, K_MT)
        condition == py_int(Get(d1, K_COND, PyInt(0)))
        d2 == Pop(d1, K_COND)
        model_class == py_int(Get(d2, K_CLASS, PyInt(0)))
        d3 == Pop(d2, K_CLASS)
        device_type == Get(d3, K_DT, PyStr(<<>>))
        d4 == Pop(d3, K_DT)
        topology_string == Get(d4, K_TOPO, PyStr(<<>>))
        d5 == Pop(d4, K_TOPO)
        named == ("model_type" :> model_type) @@ ("condition" :> condition.val) @@
                 ("model_class" :> model_class.val) @@
                 ("device_type" :> device_type) @@
                 ("topology_string" :> topology_string)
    IN  IF condition.err # "" THEN [err |-> condition.err, device |-> d2, data |-> EmptyDict]
        ELSE IF model_class.err # "" THEN [err |-> model_class.err, device |-> d3, data |-> EmptyDict]
        ELSE [err |-> "", device |-> d5, data |-> Update(named, d5)]

\* Host(name=..., hostname=..., port=..., platform=..., groups=...,
\*      connection_options=..., data={**data}); data_id identifies the dict
\* object that {**data} creates
Host(name, hostname, port, platform, parent_groups, options, data, data_id) ==
    [name |-> name, hostname |-> hostname, port |-> port, platform |-> platform,
     groups |-> parent_groups, connection_options |-> options,
     data |-> data, data_id |-> data_id]

NoHost == Host(PyNone, PyNone, PyNone, PyNone, <<>>, EmptyDict, EmptyDict, 0)

NoError == [type |-> "", arg |-> ""]

\* One pass of the loop body over device d, which holds "0x12adb", with
\* gc_list the order list(set(...)) produced.  The result names how the pass
\* ended and what it left behind.
\*   gs, objs: groups and the Group objects created so far
\*   co: the local connection_options, [bound, opts]
\*   next_id: the id the next new dict object gets
Iteration(d, gc_list, gs, objs, co, next_id) ==
    LET g == CreateGroups(gs, objs, gc_list, 1)
        d1 == Pop(d, K_GC)
        port0 == lookup_port(d1[K_MODE])
        d2 == Pop(d1, K_MODE)
        platform0 == platform_calc(Get(d2, K_MT, PyNone), Get(d2, K_DT, PyNone))
        telnet == telnet_ios(port0, platform0)
        co1 == IF telnet THEN [bound |-> TRUE, opts |-> Update(co.opts, TELNET_OPTIONS)]
               ELSE [bound |-> TRUE, opts |-> EmptyDict]
        platform == fallback_platform(port0, platform0)
        port == netconf_port(port0, platform)
        b == build_data(d2)
        hostname == b.data[K_NAME]
        data1 == Pop(b.data, K_NAME)
        address == data1[K_ADDR]
        data2 == Pop(data1, K_ADDR)
        parent_groups == [k \in DOMAIN gc_list |-> g.groups[gc_list[k]]]
        R(outcome, error, dev, opts, host, made) ==
            [outcome |-> outcome, err |-> error, device |-> dev,
             groups |-> g.groups, group_objs |-> g.group_objs,
             co |-> opts, host |-> host, next_id |-> next_id + made]
    IN  IF K_MODE \notin DOMAIN d1
        THEN R("raise", [type |-> "KeyError", arg |-> K_MODE], d1, co, NoHost, 0)
        ELSE IF ~Truthy(port0)
        THEN R("skip", NoError, d2, co, NoHost, 0)
        ELSE IF telnet /\ ~co.bound
        THEN R("raise", [type |-> "UnboundLocalError", arg |-> "connection_options"],
               d2, co, NoHost, 0)
        ELSE IF b.err # ""
        THEN R("raise", [type |-> b.err, arg |-> "int"], b.device, co1, NoHost, 1)
        ELSE IF K_NAME \notin DOMAIN b.data
        THEN R("raise", [type |-> "KeyError", arg |-> K_NAME], b.device, co1, NoHost, 1)
        ELSE IF K_ADDR \notin DOMAIN data1
        THEN R("raise", [type |-> "KeyError", arg |-> K_ADDR], b.device, co1, NoHost, 1)
        ELSE R("emit", NoError, b.device, co1,
               Host(hostname, address, port, platform, parent_groups,
                    co1.opts, data2, next_id + 1), 2)

\* ------------------------------------------------------------------------
\* Input device lists
\* ------------------------------------------------------------------------
S_99 == <<"9", "9">>
S_2 == <<"2">>
S_x == <<"x">>
S_v == <<"v">>
S_a == <<"a">>
S_b == <<"b">>
S_a_b == <<"a", ":", "b">>
S_sw1 == <<"s", "w", "1">>
S_sw2 == <<"s", "w", "2">>
S_addr == <<"1", "0", ".", "0", ".", "0", ".", "1">>
S_topo == <<"L", "A", "N">>
S_Other == <<"O", "t", "h", "e", "r">>
S_CiscoSW == <<"C", "i", "s", "c", "o", "S", "W">>
S_JuniperSW == <<"J", "u", "n", "i", "p", "e", "r", "S", "W">>
S_JuniperCisco == <<"J", "u", "n", "i", "p", "e", "r", "C", "i", "s", "c", "o">>
K_EXTRA == "0x99999"

\* marks an attribute the record does not hold
Absent == [t |-> "absent", s |-> <<>>, n |-> 0]

With(d, key, v) == IF v = Absent THEN Pop(d, key) ELSE (key :> v) @@ d

\* a record as load() builds it: the nine requested attributes, all set
BaseDevice ==
    (K_NAME :> PyStr(S_sw1)) @@ (K_MT :> PyStr(S_Rtr_Cisco)) @@
    (K_CLASS :> PyStr(S_2)) @@ (K_DT :> PyStr(S_CiscoRT)) @@
    (K_ADDR :> PyStr(S_addr)) @@ (K_COND :> PyStr(S_3)) @@
    (K_GC :> PyStr(S_a)) @@ (K_TOPO :> PyStr(S_topo)) @@
    (K_MODE :> PyStr(S_32))

GcAlphabet == {"a", "b", ":"}

GcStrings == UNION {[1..len -> GcAlphabet] : len \in 0..MaxGcLen}

\* records that differ in their collections, mode and name
GroupDevices ==
    {With(With(With(BaseDevice, K_GC, g), K_MODE, m), K_NAME, nm) :
        g \in {Absent, PyNone} \cup {PyStr(c) : c \in GcStrings},
        m \in {PyStr(S_32), PyStr(S_99)},
        nm \in {PyStr(S_sw1), PyStr(S_sw2)}}

\* records that differ in mode, model type and device type
PlatformDevices ==
    {With(With(With(BaseDevice, K_MODE, m), K_MT, mt), K_DT, dt) :
        m \in {Absent, PyNone, PyStr(<<>>), PyStr(S_32), PyStr(S_7), PyStr(S_3),
               PyStr(S_99)},
        mt \in {Absent, PyNone, PyStr(S_Other)} \cup
               {PyStr(c) : c \in DOMAIN NETMIKO_MODEL_TYPE_MAP},
        dt \in {Absent, PyNone, PyStr(<<>>), PyStr(S_CiscoRT), PyStr(S_JuniperRT),
                PyStr(S_CiscoSW), PyStr(S_JuniperSW), PyStr(S_JuniperCisco),
                PyStr(S_Other)}}

\* records that differ in name and network address
RequiredDevices ==
    {With(With(With(With(BaseDevice, K_NAME, nm), K_ADDR, ad), K_MODE, m), K_MT, mt) :
        nm \in {Absent, PyNone, PyStr(<<>>), PyStr(S_sw1)},
        ad \in {Absent, PyNone, PyStr(S_addr)},
        m \in {PyStr(S_32), PyStr(S_3), PyStr(S_99)},
        mt \in {PyStr(S_Rtr_Cisco), PyStr(S_Other)}}

\* records that differ in the attributes carried into the host data
DataDevices ==
    {With(With(With(With(With(With(BaseDevice, K_COND, c), K_CLASS, cl), K_TOPO, tp),
                    K_EXTRA, e), "model_type", e2), K_MODE, m) :
        c \in {Absent, PyNone, PyStr(<<>>), PyStr(S_3), PyStr(S_x)},
        cl \in {Absent, PyNone, PyStr(S_2), PyStr(S_x)},
        tp \in {Absent, PyNone, PyStr(S_topo)},
        e \in {Absent, PyStr(S_v)},
        e2 \in {Absent, PyStr(S_x)},
        m \in {PyStr(S_32), PyStr(S_99)}}

Devices == GroupDevices \cup PlatformDevices \cup RequiredDevices \cup DataDevices

\* the records that surround the one under study: an SSH Cisco router, a
\* device without CLI access, a telnet-only Cisco router, a Juniper router,
\* a telnet-only device of no known platform
ContextDevices ==
    {BaseDevice,
     With(With(With(BaseDevice, K_MODE, PyStr(S_99)), K_GC, PyStr(S_b)),
          K_NAME, PyStr(S_sw2)),
     With(With(With(BaseDevice, K_MODE, PyStr(S_3)), K_GC, PyStr(S_a_b)),
          K_NAME, PyStr(S_sw2)),
     With(With(With(With(BaseDevice, K_MT, PyStr(S_Other)), K_DT, PyStr(S_JuniperRT)),
               K_GC, PyStr(S_b)), K_NAME, PyStr(S_sw2)),
     With(With(With(With(BaseDevice, K_MT, PyStr(S_Other)), K_DT, PyStr(S_Other)),
               K_MODE, PyStr(S_3)), K_NAME, PyStr(S_sw2))}

\* hosts_data is a list of at most MaxDevices records, at most one of them
\* not a context record
IsDeviceList(l) ==
    \E len \in 0..MaxDevices :
        \E c \in [1..len -> ContextDevices] :
            \/ l = c
            \/ \E p \in 1..len : \E f \in Devices : l = [c EXCEPT ![p] = f]

\* ------------------------------------------------------------------------
\* State
\* ------------------------------------------------------------------------
VARIABLES
    hosts_data,          \* the argument: the list of device records
    input,               \* the argument as it was passed (history)
    hosts,               \* Hosts(): name -> Host
    groups,              \* Groups(): name -> Group object (index in group_objs)
    group_objs,          \* the Group objects created so far
    connection_options,  \* the local variable: [bound, opts]
    i,                   \* position of the loop in hosts_data
    next_id,             \* id of the next dict object; record k of the input is k
    status,              \* "running", "returned" or "raised"
    err,                 \* the exception that ended the call
    producer             \* name -> position of the record the host was built from (history)

vars == <<hosts_data, input, hosts, groups, group_objs, connection_options, i,
          next_id, status, err, producer>>

Init ==
    /\ IsDeviceList(hosts_data)
    /\ input = hosts_data
    /\ hosts = EmptyDict
    /\ groups = EmptyDict
    /\ group_objs = <<>>
    /\ connection_options = [bound |-> FALSE, opts |-> EmptyDict]
    /\ i = 1
    /\ next_id = Len(hosts_data) + 1
    /\ status = "running"
    /\ err = NoError
    /\ producer = EmptyDict

device == hosts_data[i]

InLoop == status = "running" /\ i \in 1..Len(hosts_data)

\* what every pass that got beyond line 77 leaves behind
Leave(r) ==
    /\ hosts_data' = [hosts_data EXCEPT ![i] = r.device]
    /\ groups' = r.groups
    /\ group_objs' = r.group_objs
    /\ connection_options' = r.co
    /\ next_id' = r.next_id
    /\ input' = input

Raise(r) ==
    /\ Leave(r)
    /\ status' = "raised"
    /\ err' = r.err
    /\ UNCHANGED <<hosts, i, producer>>

\* the ways the pass of the loop over device can end, one for every order
\* list(set(...)) can give gc_list
Passes ==
    {Iteration(device, gc_list, groups, group_objs, connection_options, next_id) :
        gc_list \in Orderings(gc_set(device[K_GC]))}

\* line 77: device.pop("0x12adb") on a record without the attribute
RaiseMissingCollections ==
    /\ InLoop
    /\ K_GC \notin DOMAIN device
    /\ status' = "raised"
    /\ err' = [type |-> "KeyError", arg |-> K_GC]
    /\ UNCHANGED <<hosts_data, input, hosts, groups, group_objs,
                   connection_options, i, next_id, producer>>

\* line 85: device.pop("0x12beb") on a record without the attribute
RaiseMissingCommMode ==
    /\ InLoop
    /\ K_GC \in DOMAIN device
    /\ \E r \in Passes :
          /\ r.outcome = "raise"
          /\ r.err = [type |-> "KeyError", arg |-> K_MODE]
          /\ Raise(r)

\* lines 88-89: no port, continue
SkipDevice ==
    /\ InLoop
    /\ K_GC \in DOMAIN device
    /\ \E r \in Passes :
          /\ r.outcome = "skip"
          /\ Leave(r)
          /\ i' = i + 1
          /\ UNCHANGED <<hosts, status, err, producer>>

\* line 96: connection_options.update(...) before any assignment
RaiseUnboundConnectionOptions ==
    /\ InLoop
    /\ K_GC \in DOMAIN device
    /\ \E r \in Passes :
          /\ r.outcome = "raise"
          /\ r.err.type = "UnboundLocalError"
          /\ Raise(r)

\* lines 123-124: int(...) of a value that is no number
RaiseIntConversion ==
    /\ InLoop
    /\ K_GC \in DOMAIN device
    /\ \E r \in Passes :
          /\ r.outcome = "raise"
          /\ r.err.type \in {"TypeError", "ValueError"}
          /\ Raise(r)

\* line 130: data.pop("0x1006e") on a record without the attribute
RaiseMissingName ==
    /\ InLoop
    /\ K_GC \in DOMAIN device
    /\ \E r \in Passes :
          /\ r.outcome = "raise"
          /\ r.err = [type |-> "KeyError", arg |-> K_NAME]
          /\ Raise(r)

\* line 133: data.pop("0x12d7f") on a record without the attribute
RaiseMissingAddress ==
    /\ InLoop
    /\ K_GC \in DOMAIN device
    /\ \E r \in Passes :
          /\ r.outcome = "raise"
          /\ r.err = [type |-> "KeyError", arg |-> K_ADDR]
          /\ Raise(r)

\* lines 131-139: hosts[hostname] = Host(...)
EmitHost ==
    /\ InLoop
    /\ K_GC \in DOMAIN device
    /\ \E r \in Passes :
          /\ r.outcome = "emit"
          /\ Leave(r)
          /\ hosts' = Update(hosts, r.host.name :> r.host)
          /\ producer' = Update(producer, r.host.name :> i)
          /\ i' = i + 1
          /\ UNCHANGED <<status, err>>

\* line 141: return (hosts, groups)
Return ==
    /\ status = "running"
    /\ i = Len(hosts_data) + 1
    /\ status' = "returned"
    /\ UNCHANGED <<hosts_data, input, hosts, groups, group_objs,
                   connection_options, i, next_id, err, producer>>

Next ==
    \/ RaiseMissingCollections
    \/ RaiseMissingCommMode
    \/ SkipDevice
    \/ RaiseUnboundConnectionOptions
    \/ RaiseIntConversion
    \/ RaiseMissingName
    \/ RaiseMissingAddress
    \/ EmitHost
    \/ Return

Spec == Init /\ [][Next]_vars

TypeOK ==
    /\ status \in {"running", "returned", "raised"}
    /\ i \in 1..(Len(hosts_data) + 1)
    /\ (status = "raised") = (err # NoError)
    /\ DOMAIN producer = DOMAIN hosts

\* ------------------------------------------------------------------------
\* Properties
\* ------------------------------------------------------------------------
Returned == status = "returned"

HostNames == DOMAIN hosts

\* the record, as it was passed, that the host named nm was built from
Source(nm) == input[producer[nm]]

SupportedModes == {PyStr(S_32), PyStr(S_7), PyStr(S_3)}

Unsupported(d) == K_MODE \notin DOMAIN d \/ d[K_MODE] \notin SupportedModes

\* the colon-separated tokens of a collection-membership value: the maximal
\* colon-free stretches of the text; None and "" name no collection
Tokens(v) ==
    IF v.t # "str" \/ v.s = <<>> THEN {}
    ELSE LET text == v.s
             n == Len(text)
         IN  {SubSeq(text, c[1], c[2]) :
                 c \in {c \in (1..(n + 1)) \X (0..n) :
                          /\ c[1] <= c[2] + 1
                          /\ c[1] = 1 \/ text[c[1] - 1] = ":"
                          /\ c[2] = n \/ text[c[2] + 1] = ":"
                          /\ \A k \in c[1]..c[2] : text[k] # ":"}}

\* the names of the groups a host references
GroupNames(h) == {group_objs[h.groups[k]].name : k \in DOMAIN h.groups}

\* C1: when _process_data returns, every group a host references is stored
\* in the group mapping under its own name, a host references no group
\* twice, and the names of the groups it references are exactly the distinct
\* colon-separated tokens of attribute 0x12adb of the record it was built from.
C1_HostGroupsCovered ==
    Returned =>
        \A nm \in HostNames :
            LET h == hosts[nm]
            IN  /\ \A k \in DOMAIN h.groups :
                      LET gname == group_objs[h.groups[k]].name
                      IN  gname \in DOMAIN groups /\ groups[gname] = h.groups[k]
                /\ \A a, b \in DOMAIN h.groups : a # b => h.groups[a] # h.groups[b]
                /\ GroupNames(h) = Tokens(Source(nm)[K_GC])

C1_Witness ==
    /\ Returned
    /\ \E nm \in HostNames :
          /\ Len(hosts[nm].groups) = 2
          /\ Len(Source(nm)[K_GC].s) = 3
          /\ Cardinality(DOMAIN groups) = 2

\* C2: a record whose attribute 0x12beb is not "32", "7" or "3", the record
\* without the attribute included, is skipped without an error: the call never
\* ends with an exception at such a record, and no host is built from it.
C2_UnsupportedModeSkipped ==
    \A j \in 1..Len(input) :
        (Unsupported(input[j]) /\ K_GC \in DOMAIN input[j]) =>
            /\ ~(status = "raised" /\ i = j)
            /\ \A nm \in HostNames : producer[nm] # j

\* C3: the port of every host is 830 when its platform is "junos"; otherwise
\* it is 23 for mode "3" and 22 for modes "32" and "7".
C3_PortByModeAndPlatform ==
    \A nm \in HostNames :
        LET h == hosts[nm]
            mode == Source(nm)[K_MODE]
        IN  /\ h.port \in {PyInt(22), PyInt(23), PyInt(830)}
            /\ h.platform = PyStr(S_junos) => h.port = PyInt(830)
            /\ (h.platform # PyStr(S_junos) /\ mode = PyStr(S_3)) => h.port = PyInt(23)
            /\ (h.platform # PyStr(S_junos) /\ mode \in {PyStr(S_32), PyStr(S_7)})
                   => h.port = PyInt(22)

C3_Witness ==
    \E nm \in HostNames :
        /\ Source(nm)[K_MODE] = PyStr(S_3)
        /\ hosts[nm].platform = PyStr(S_junos)
        /\ hosts[nm].port = PyInt(830)

\* C4: a record with mode "3" whose platform resolves to "ios" is emitted,
\* wherever it stands in the list, as a host whose platform is no longer
\* "ios" but the telnet variant: connection_options is never found unbound,
\* and no host on port 23 built from such a record has platform "ios".
C4_TelnetCiscoRewritten ==
    /\ err.type # "UnboundLocalError"
    /\ \A nm \in HostNames :
          LET h == hosts[nm]
              d == Source(nm)
          IN  (/\ d[K_MODE] = PyStr(S_3)
               /\ platform_calc(Get(d, K_MT, PyNone), Get(d, K_DT, PyNone)) = PyStr(S_ios))
                  => (h.port = PyInt(23) /\ h.platform # PyStr(S_ios))

\* C5: the platform of every host follows the precedence model-type table,
\* device-type table, "Cisco" in the device type, "Juniper" in the device
\* type (with port 830), generic identifier keyed by the port; and the call
\* never ends with the error of the platform branch (UnboundLocalError) at a
\* record whose platform is absent.
InModelTable(d) ==
    /\ K_MT \in DOMAIN d
    /\ d[K_MT].t = "str"
    /\ d[K_MT].s \in DOMAIN NETMIKO_MODEL_TYPE_MAP

InDeviceTable(d) ==
    /\ K_DT \in DOMAIN d
    /\ d[K_DT].t = "str"
    /\ d[K_DT].s \in DOMAIN NETMIKO_DEVICE_TYPE_MAP

DeviceTypeHas(d, word) ==
    /\ K_DT \in DOMAIN d
    /\ d[K_DT].t = "str"
    /\ \E a \in 1..Len(d[K_DT].s) : \E b \in a..Len(d[K_DT].s) :
          SubSeq(d[K_DT].s, a, b) = word

PlatformAbsent(d) ==
    /\ ~InModelTable(d)
    /\ ~InDeviceTable(d)
    /\ ~DeviceTypeHas(d, S_Cisco)
    /\ ~DeviceTypeHas(d, S_Juniper)

C5_PlatformPrecedence ==
    /\ \A nm \in HostNames :
          LET h == hosts[nm]
              d == Source(nm)
          IN  /\ InModelTable(d) => h.platform = NETMIKO_MODEL_TYPE_MAP[d[K_MT].s]
              /\ (~InModelTable(d) /\ InDeviceTable(d))
                     => h.platform = NETMIKO_DEVICE_TYPE_MAP[d[K_DT].s]
              /\ (~InModelTable(d) /\ ~InDeviceTable(d) /\ DeviceTypeHas(d, S_Cisco))
                     => h.platform = PyStr(S_ios)
              /\ (/\ ~InModelTable(d)
                  /\ ~InDeviceTable(d)
                  /\ ~DeviceTypeHas(d, S_Cisco)
                  /\ DeviceTypeHas(d, S_Juniper))
                     => (h.platform = PyStr(S_junos) /\ h.port = PyInt(830))
              /\ PlatformAbsent(d) =>
                     \/ h.port = PyInt(22) /\ h.platform = PyStr(S_generic)
                     \/ h.port = PyInt(23) /\ h.platform = PyStr(S_generic_telnet)
    /\ (status = "raised" /\ PlatformAbsent(input[i])) => err.type # "UnboundLocalError"

C5_Witness ==
    /\ \E nm \in HostNames :
          /\ Get(Source(nm), K_MT, PyNone) = PyStr(S_CiscoNXOS)
          /\ Get(Source(nm), K_DT, PyNone) = PyStr(S_JuniperRT)
          /\ hosts[nm].platform = PyStr(S_nxos_ssh)
    /\ \E nm \in HostNames :
          /\ PlatformAbsent(Source(nm))
          /\ hosts[nm].platform = PyStr(S_generic_telnet)

\* C6: two hosts that reference a group of the same name reference the same
\* Group object, and that object is the one the group mapping holds under
\* the name.
C6_OneGroupPerName ==
    \A nm1, nm2 \in HostNames :
        \A k1 \in DOMAIN hosts[nm1].groups : \A k2 \in DOMAIN hosts[nm2].groups :
            LET g1 == hosts[nm1].groups[k1]
                g2 == hosts[nm2].groups[k2]
            IN  group_objs[g1].name = group_objs[g2].name =>
                    /\ g1 = g2
                    /\ group_objs[g1].name \in DOMAIN groups
                    /\ groups[group_objs[g1].name] = g1

C6_Witness ==
    \E nm1, nm2 \in HostNames :
        /\ nm1 # nm2
        /\ producer[nm1] < producer[nm2]
        /\ \E k1 \in DOMAIN hosts[nm1].groups : \E k2 \in DOMAIN hosts[nm2].groups :
              hosts[nm1].groups[k1] = hosts[nm2].groups[k2]

\* C7: no host is emitted whose name or network address is absent (None):
\* a record with a supported mode and an empty 0x1006e or 0x12d7f ends the
\* call with an error.
C7_NoHostWithoutNameOrAddress ==
    \A nm \in HostNames : hosts[nm].name # PyNone /\ hosts[nm].hostname # PyNone

\* C8 as stated: after the call every record of the input list holds the
\* keys and values it held before.
C8_InputUnchanged == Returned => hosts_data = input

\* C8, amended: after the call every record has lost exactly the attributes
\* the translation consumed (0x12adb and 0x12beb always; 0x10000, 0x1000a,
\* 0x11ee8, 0x23000e and 0x129e7 when a host was built from it), holds no
\* new key, and every key it still holds has the value it had.
PoppedAlways == {K_GC, K_MODE}

PoppedWhenEmitted == {K_MT, K_COND, K_CLASS, K_DT, K_TOPO}

C8_OnlyConsumedKeysRemoved ==
    Returned =>
        \A j \in 1..Len(input) :
            LET gone == PoppedAlways \cup
                        (IF Unsupported(input[j]) THEN {} ELSE PoppedWhenEmitted)
            IN  /\ DOMAIN hosts_data[j] = (DOMAIN input[j]) \ gone
                /\ \A k \in DOMAIN hosts_data[j] : hosts_data[j][k] = input[j][k]

C8_Witness ==
    /\ Returned
    /\ \E j \in 1..Len(input) :
          /\ ~Unsupported(input[j])
          /\ K_TOPO \in DOMAIN input[j]
          /\ K_EXTRA \in DOMAIN hosts_data[j]
          /\ K_NAME \in DOMAIN hosts_data[j]
    /\ \E j \in 1..Len(input) :
          /\ Unsupported(input[j])
          /\ K_MT \in DOMAIN hosts_data[j]

\* C9: the data of every host holds every attribute of its record that the
\* translation does not consume, under the same key with the same value;
\* it holds neither 0x1006e nor 0x12d7f; and it is a dict object of its own,
\* none of the input records and not the data of another host.
ConsumedKeys == PoppedAlways \cup PoppedWhenEmitted \cup {K_NAME, K_ADDR}

C9_ResidualDataCarried ==
    \A nm \in HostNames :
        LET h == hosts[nm]
            d == Source(nm)
        IN  /\ \A k \in (DOMAIN d) \ ConsumedKeys :
                  k \in DOMAIN h.data /\ h.data[k] = d[k]
            /\ K_NAME \notin DOMAIN h.data
            /\ K_ADDR \notin DOMAIN h.data
            /\ h.data_id \notin 1..Len(input)
            /\ \A other \in HostNames \ {nm} : hosts[other].data_id # h.data_id

C9_Witness ==
    \E nm \in HostNames :
        /\ K_EXTRA \in DOMAIN hosts[nm].data
        /\ "model_type" \in DOMAIN Source(nm)
        /\ hosts[nm].data["model_type"] = PyStr(S_x)

\* C10: when _process_data returns, the keys of the group mapping are the
\* tokens of attribute 0x12adb of all records of the list, skipped ones
\* included.
C10_GroupsOfAllDevices ==
    Returned =>
        DOMAIN groups = UNION {Tokens(input[j][K_GC]) : j \in 1..Len(input)}

C10_Witness ==
    /\ Returned
    /\ HostNames # {}
    /\ \E j \in 1..Len(input) :
          /\ Unsupported(input[j])
          /\ \E g \in Tokens(input[j][K_GC]) :
                /\ g \in DOMAIN groups
                /\ g = <<>>
                /\ \A nm \in HostNames : g \notin GroupNames(hosts[nm])

====
